---- MODULE Spec2Model ----
(***************************************************************************)
(* Model of the promptOS native core (src-tauri/src):                      *)
(*   keystroke_monitor.rs   the CGEvent tap, start/stop_monitoring         *)
(*   text_field_detector.rs the focus check and the cursor query           *)
(*   text_injector.rs       insert_text and insert_text_via_paste          *)
(*   lib.rs                 the automatic start at launch                  *)
(*                                                                         *)
(* Spec       the keystroke monitor: start, stop, tap threads, callbacks *)
(* InjectSpec the text injector: paste calls, restore tasks, insert_text   *)
(***************************************************************************)
EXTENDS Integers, Sequences, FiniteSets, TLC

\* ------------------------------------------------------------------ bounds
\* Operations the environment begins: start_monitoring calls (one tap thread
\* each), stop_monitoring calls and key events, in any mix.
MaxOps == 4

\* ------------------------------------------------------- program constants
K_CG_EVENT_KEY_DOWN == 10
VK_SLASH == 44

\* Event kinds and keycodes the OS may hand to the tap: key-down and one other
\* kind, the trigger key and one other key (0x09, V).
EventKinds == {[etype |-> K_CG_EVENT_KEY_DOWN, keycode |-> VK_SLASH],
               [etype |-> K_CG_EVENT_KEY_DOWN, keycode |-> 9],
               [etype |-> K_CG_EVENT_KEY_DOWN + 1, keycode |-> VK_SLASH]}

\* Option<usize> / Option<AppHandle>
NoTap == 0
TapIds == 1..MaxOps
NoApp == "None"
SomeApp == "Some"

\* The null CGEventRef a callback returns to suppress an event.
NullEvent == [etype |-> 0, keycode |-> 0]

\* Lock owners: the context running stop_monitoring, and one thread per
\* start_monitoring call (it creates the tap, runs its loop and its callbacks).
Free == [k |-> "free", i |-> 0]
Stopper == [k |-> "stop", i |-> 0]
Thread(t) == [k |-> "tap", i |-> t]

\* What the environment answers to the queries of the callback.
AxOutcomes == {"no_system_wide", "no_focused_element", "no_value", "text_input"}
Pointers == {[x |-> 100, y |-> 200], [x |-> 3, y |-> 5]}
ScreenHeights == {800}

VARIABLES
  EVENT_TAP_REF,  \* static EVENT_TAP_REF: NoTap or the stored tap
  APP_HANDLE,     \* static APP_HANDLE: NoApp or SomeApp
  tapLock,        \* owner of the EVENT_TAP_REF mutex
  appLock,        \* owner of the APP_HANDLE mutex
  stop,           \* the stop_monitoring call under way: pc and the tap it took
  nStart,         \* start_monitoring calls made
  nStop,          \* stop_monitoring calls made
  bg,             \* per start call: pc of its background thread
  enabled,        \* per tap: whether the OS delivers events to it
  tapOrder,       \* created taps, oldest first (head insert: newest sees first)
  startRet,       \* per start call: "none", "Ok" or "Err"
  lastStop,       \* the latest stop_monitoring call: what it found, did, returned
  ev,             \* key events: kind, keycode, place in the tap chain, outcome
  cb,             \* per tap thread: the callback invocation it is running
  lastCb,         \* the callback invocation that returned last
  stopped,        \* a stop_monitoring has returned and no start was called since
  clipboard,      \* the general pasteboard's string content: None or Some(s)
  calls,          \* the insert_text_via_paste calls made, each with its restore task
  lastInsert,     \* the latest insert_text call: its inputs and what it returned
  env,            \* what the detector's platform calls answer: focus, pointer, screen
  query,          \* the latest detector command: its inputs, calls and result
  nQuery          \* detector commands made

monVars == <<EVENT_TAP_REF, APP_HANDLE, tapLock, appLock, stop,
             nStart, nStop, bg, enabled, tapOrder, startRet, lastStop, ev, cb,
             lastCb, stopped>>

injVars == <<clipboard, calls, lastInsert>>

detVars == <<env, query, nQuery>>

vars == <<monVars, injVars, detVars>>

\* ----------------------------------------------------- text_field_detector
\* is_text_field_focused: false when the system-wide element cannot be
\* created, when no element is focused, or when it has no AXValue.
is_text_field_focused(ax) ==
  IF ax = "no_system_wide" THEN FALSE
  ELSE LET is_focused == ax # "no_focused_element"
           is_text_input == IF is_focused THEN ax = "text_input" ELSE FALSE
       IN is_text_input

NoBounds == [x |-> 0, y |-> 0, width |-> 0, height |-> 0]
Ok(v) == [ok |-> TRUE, val |-> v, err |-> ""]
Err(e) == [ok |-> FALSE, val |-> NoBounds, err |-> e]

\* A get_cursor_position that leaves the pointer in bottom-left-origin
\* coordinates.
get_cursor_position_raw(cls, point, screen_height) ==
  IF ~cls THEN Err("Failed to get NSEvent class")
  ELSE Ok([x |-> point.x, y |-> point.y, width |-> 0, height |-> 0])

\* get_cursor_position: the pointer in top-left-origin coordinates.
get_cursor_position(cls, point, screen_height) ==
  IF ~cls THEN Err("Failed to get NSEvent class")
  ELSE LET y == screen_height - point.y
       IN Ok([x |-> point.x, y |-> y, width |-> 0, height |-> 0])

\* A get_focused_text_field_bounds that reports every failure as the
\* no-focus error.
get_focused_text_field_bounds_one_error(ax, cls, point, screen_height) ==
  IF is_text_field_focused(ax)
     /\ get_cursor_position(cls, point, screen_height).ok
  THEN get_cursor_position(cls, point, screen_height)
  ELSE Err("No focused text field")

\* A get_focused_text_field_bounds that leaves out the focus check.
get_focused_text_field_bounds_unchecked(ax, cls, point, screen_height) ==
  get_cursor_position(cls, point, screen_height)

\* get_focused_text_field_bounds: the focus check, then the cursor query.
get_focused_text_field_bounds(ax, cls, point, screen_height) ==
  IF is_text_field_focused(ax)
  THEN get_cursor_position(cls, point, screen_height)
  ELSE Err("No focused text field")

\* ------------------------------------------- the detector's commands
NoPoint == [x |-> 0, y |-> 0]

\* Budget on detector commands.
MaxQueries == 2

\* What the platform answers: the accessibility outcome, whether the NSEvent
\* and NSScreen classes are found, the pointer and the main screen's height.
Envs == [ax : AxOutcomes, cls : BOOLEAN, point : Pointers,
         height : ScreenHeights]

NoQuery == [op |-> "none", at |-> [ax |-> "no_system_wide", cls |-> FALSE,
                                   point |-> NoPoint, height |-> 0],
            calls |-> <<>>, res |-> Err("")]

DetIdle ==
  /\ env = [ax |-> "no_system_wide", cls |-> FALSE, point |-> NoPoint,
            height |-> 0]
  /\ query = NoQuery
  /\ nQuery = 0

DetInit ==
  /\ env \in Envs
  /\ query = NoQuery
  /\ nQuery = 0

\* Focus moves, the pointer moves, the classes are or are not found.
EnvChange ==
  /\ \E e \in Envs : e # env /\ env' = e
  /\ UNCHANGED <<query, nQuery>>
  /\ UNCHANGED <<monVars, injVars>>

\* The command get_cursor_position.
GetCursorPosition ==
  /\ nQuery < MaxQueries
  /\ nQuery' = nQuery + 1
  /\ query' = [op |-> "get_cursor_position", at |-> env,
               calls |-> <<"get_cursor_position">>,
               res |-> get_cursor_position(env.cls, env.point, env.height)]
  /\ UNCHANGED env
  /\ UNCHANGED <<monVars, injVars>>

\* The calls get_focused_text_field_bounds makes, in order.
BoundsCalls(ax) ==
  IF is_text_field_focused(ax)
  THEN <<"is_text_field_focused", "get_cursor_position">>
  ELSE <<"is_text_field_focused">>

\* The command get_focused_text_field_bounds.
GetFocusedTextFieldBounds ==
  /\ nQuery < MaxQueries
  /\ nQuery' = nQuery + 1
  /\ query' = [op |-> "get_focused_text_field_bounds", at |-> env,
               calls |-> BoundsCalls(env.ax),
               res |-> get_focused_text_field_bounds(env.ax, env.cls,
                                                     env.point, env.height)]
  /\ UNCHANGED env
  /\ UNCHANGED <<monVars, injVars>>

\* ------------------------------------------------------------------- Init
\* The environment may begin another operation.
MayBegin == nStart + nStop + Len(ev) < MaxOps

IdleStop == [pc |-> "idle", tap |-> NoTap]
IdleCb == [pc |-> "idle", e |-> 0, focused |-> FALSE, res |-> Err(""),
           point |-> NoPoint, height |-> 0, payload |-> NoBounds,
           emitOk |-> FALSE]
NoCb == [etype |-> 0, keycode |-> 0, focused |-> FALSE,
         res |-> Err(""), point |-> NoPoint, height |-> 0, app |-> NoApp,
         tapSet |-> FALSE, payload |-> NoBounds, emitOk |-> FALSE,
         overlay |-> "none",
         ret |-> NullEvent, trace |-> <<>>]
NoStop == [idle |-> FALSE, disables |-> 0, ret |-> "none"]

MonInit ==
  /\ EVENT_TAP_REF = NoTap
  /\ APP_HANDLE = NoApp
  /\ tapLock = Free
  /\ appLock = Free
  /\ stop = IdleStop
  /\ nStart = 0
  /\ nStop = 0
  /\ bg = [t \in TapIds |-> "unspawned"]
  /\ enabled = [t \in TapIds |-> FALSE]
  /\ tapOrder = <<>>
  /\ startRet = [t \in TapIds |-> "none"]
  /\ lastStop = NoStop
  /\ ev = <<>>
  /\ cb = [t \in TapIds |-> IdleCb]
  /\ lastCb = NoCb
  /\ stopped = FALSE

\* ------------------------------------------------------- start_monitoring
\* What start_monitoring returns once its thread is spawned.
StartResult == "Ok"

\* start_monitoring, run by the launch thread of lib.rs or by
\* start_monitoring_command, at any time: *APP_HANDLE.lock().unwrap() = Some(app)
\* (the guard lives for the statement), std::thread::spawn(..), Ok(()).
StartMonitoring ==
  /\ UNCHANGED <<injVars, detVars>>
  /\ MayBegin
  /\ appLock = Free
  /\ nStart' = nStart + 1
  /\ APP_HANDLE' = SomeApp
  /\ bg' = [bg EXCEPT ![nStart + 1] = "create"]
  /\ startRet' = [startRet EXCEPT ![nStart + 1] = StartResult]
  /\ stopped' = FALSE
  /\ lastStop' = [lastStop EXCEPT !.idle = FALSE]
  /\ ev' = [e \in DOMAIN ev |-> [ev[e] EXCEPT !.afterStop = FALSE]]
  /\ UNCHANGED <<EVENT_TAP_REF, tapLock, appLock, stop, nStop, enabled,
                 tapOrder, cb, lastCb>>

\* ------------------------------------------- the thread start_monitoring spawns
\* CGEventTapCreate: the OS creates the tap, or refuses (no accessibility
\* permission) and the thread returns.
BgCreate(t) ==
  /\ UNCHANGED <<injVars, detVars>>
  /\ bg[t] = "create"
  /\ \E granted \in BOOLEAN :
       IF granted
       THEN /\ tapOrder' = Append(tapOrder, t)
            /\ bg' = [bg EXCEPT ![t] = "store"]
       ELSE /\ bg' = [bg EXCEPT ![t] = "exited"]
            /\ UNCHANGED tapOrder
  /\ UNCHANGED <<EVENT_TAP_REF, APP_HANDLE, tapLock, appLock, stop,
                 nStart, nStop, enabled, startRet, lastStop, ev, cb, lastCb,
                 stopped>>

\* *EVENT_TAP_REF.lock().unwrap() = Some(tap as usize)
BgStore(t) ==
  /\ UNCHANGED <<injVars, detVars>>
  /\ bg[t] = "store"
  /\ tapLock = Free
  /\ EVENT_TAP_REF' = t
  /\ bg' = [bg EXCEPT ![t] = "enable"]
  /\ UNCHANGED <<APP_HANDLE, tapLock, appLock, stop, nStart, nStop,
                 enabled, tapOrder, startRet, lastStop, ev, cb, lastCb, stopped>>

\* add the run loop source, CGEventTapEnable(tap, true), CFRunLoop::run_current()
BgEnable(t) ==
  /\ UNCHANGED <<injVars, detVars>>
  /\ bg[t] = "enable"
  /\ enabled' = [enabled EXCEPT ![t] = TRUE]
  /\ bg' = [bg EXCEPT ![t] = "runloop"]
  /\ UNCHANGED <<EVENT_TAP_REF, APP_HANDLE, tapLock, appLock, stop,
                 nStart, nStop, tapOrder, startRet, lastStop, ev, cb, lastCb,
                 stopped>>

\* -------------------------------------------------------- stop_monitoring
\* No start_monitoring is under way: no thread it spawned has yet to create,
\* store or enable its tap.
NoStartUnderWay == \A t \in TapIds : bg[t] \in {"unspawned", "exited", "runloop"}

\* stop_monitoring, a command (its calls do not overlap):
\* if let Ok(mut guard) = EVENT_TAP_REF.lock() { if let Some(tap_addr) = guard.take()
StopTake ==
  /\ UNCHANGED <<injVars, detVars>>
  /\ stop.pc = "idle"
  /\ MayBegin
  /\ tapLock = Free
  /\ nStop' = nStop + 1
  /\ EVENT_TAP_REF' = NoTap
  /\ lastStop' = [idle |-> EVENT_TAP_REF = NoTap /\ APP_HANDLE = NoApp
                           /\ NoStartUnderWay,
                  disables |-> 0, ret |-> "none"]
  /\ IF EVENT_TAP_REF # NoTap
     THEN /\ tapLock' = Stopper
          /\ stop' = [pc |-> "t_disable", tap |-> EVENT_TAP_REF]
     ELSE /\ tapLock' = Free
          /\ stop' = [pc |-> "t_clear", tap |-> NoTap]
  /\ UNCHANGED <<APP_HANDLE, appLock, nStart, bg, enabled, tapOrder,
                 startRet, ev, cb, lastCb, stopped>>

\* A stop_monitoring that keeps the EVENT_TAP_REF guard until it returns.
StopDisableKeepsGuard ==
  /\ UNCHANGED <<injVars, detVars>>
  /\ stop.pc = "t_disable"
  /\ enabled' = [enabled EXCEPT ![stop.tap] = FALSE]
  /\ lastStop' = [lastStop EXCEPT !.disables = @ + 1]
  /\ stop' = [pc |-> "t_clear", tap |-> NoTap]
  /\ UNCHANGED <<EVENT_TAP_REF, APP_HANDLE, tapLock, appLock, nStart, nStop,
                 bg, tapOrder, startRet, ev, cb, lastCb, stopped>>

\* CGEventTapEnable(tap, false), then the guard is dropped
StopDisable ==
  /\ UNCHANGED <<injVars, detVars>>
  /\ stop.pc = "t_disable"
  /\ enabled' = [enabled EXCEPT ![stop.tap] = FALSE]
  /\ lastStop' = [lastStop EXCEPT !.disables = @ + 1]
  /\ tapLock' = Free
  /\ stop' = [pc |-> "t_clear", tap |-> NoTap]
  /\ UNCHANGED <<EVENT_TAP_REF, APP_HANDLE, appLock, nStart, nStop,
                 bg, tapOrder, startRet, ev, cb, lastCb, stopped>>

\* A stop_monitoring that reports an error when there was nothing to stop.
StopResultErrWhenIdle(disables) == IF disables = 0 THEN "Err" ELSE "Ok"

\* What stop_monitoring returns.
StopResult(disables) == "Ok"

\* A stop_monitoring that leaves the app handle registered.
StopClearKeepsSink ==
  /\ UNCHANGED <<injVars, detVars>>
  /\ stop.pc = "t_clear"
  /\ appLock = Free
  /\ lastStop' = [lastStop EXCEPT !.ret = "Ok"]
  /\ stop' = IdleStop
  /\ stopped' = TRUE
  /\ UNCHANGED <<EVENT_TAP_REF, APP_HANDLE, tapLock, appLock, nStart, nStop,
                 bg, enabled, tapOrder, startRet, ev, cb, lastCb>>

\* *APP_HANDLE.lock().unwrap() = None; Ok(())
StopClear ==
  /\ UNCHANGED <<injVars, detVars>>
  /\ stop.pc = "t_clear"
  /\ appLock = Free
  /\ APP_HANDLE' = NoApp
  /\ lastStop' = [lastStop EXCEPT !.ret = StopResult(lastStop.disables)]
  /\ stop' = IdleStop
  /\ stopped' = TRUE
  /\ UNCHANGED <<EVENT_TAP_REF, tapLock, appLock, nStart, nStop, bg,
                 enabled, tapOrder, startRet, ev, cb, lastCb>>

\* ----------------------------------------------------- event_tap_callback
\* The next enabled tap of the chain below place pos (0: none).
NextTap(pos) ==
  LET live == {i \in 1..pos : enabled[tapOrder[i]]}
  IN IF live = {} THEN 0 ELSE CHOOSE i \in live : \A j \in live : j <= i

\* A trigger test that leaves out the event kind.
IsTriggerAnyKind(event_type, keycode) == keycode = VK_SLASH

\* if event_type == K_CG_EVENT_KEY_DOWN { .. if keycode == VK_SLASH {
IsTrigger(event_type, keycode) ==
  event_type = K_CG_EVENT_KEY_DOWN /\ keycode = VK_SLASH

\* What the callback returns: the null pointer to suppress, else the event.
CallbackReturn(event, suppress) == IF suppress THEN NullEvent ELSE event

EventOf(r) == [etype |-> r.etype, keycode |-> r.keycode]

\* A callback whose failure paths return the null pointer.
PassedAsNull(r, focused, res, point, height) ==
  [etype |-> r.etype, keycode |-> r.keycode,
   focused |-> focused, res |-> res, point |-> point, height |-> height,
   app |-> APP_HANDLE, tapSet |-> EVENT_TAP_REF # NoTap,
   payload |-> NoBounds, emitOk |-> FALSE, overlay |-> "none",
   ret |-> NullEvent, trace |-> <<"return_null">>]

\* The record of a callback invocation that passes event r through; app and
\* tapSet are the two slots as the invocation returns.
Passed(r, focused, res, point, height) ==
  [etype |-> r.etype, keycode |-> r.keycode,
   focused |-> focused, res |-> res, point |-> point, height |-> height,
   app |-> APP_HANDLE, tapSet |-> EVENT_TAP_REF # NoTap,
   payload |-> NoBounds, emitOk |-> FALSE, overlay |-> "none", ret |-> CallbackReturn(EventOf(r), FALSE),
   trace |-> <<"return_event">>]

\* Event r goes on down the chain, below place i, as the callback returned it;
\* with no tap left it reaches the focused application.
PassOn(r, i, ret) ==
  [r EXCEPT !.etype = ret.etype, !.keycode = ret.keycode, !.pos = i - 1,
            !.status = IF i - 1 = 0 THEN "app" ELSE "queued"]

\* Event number e becomes r (a new event is appended).
Put(e, r) == IF e = Len(ev) + 1 THEN Append(ev, r) ELSE [ev EXCEPT ![e] = r]

\* The OS hands event r (number e) to the tap at place i; its thread runs the
\* callback up to the point where it needs the APP_HANDLE lock: the kind and
\* keycode checks and get_focused_text_field_bounds().
Enter(e, r, i) ==
  LET t == tapOrder[i]
  IN /\ cb[t].pc = "idle"
     /\ IF ~IsTrigger(r.etype, r.keycode)
        THEN /\ lastCb' = Passed(r, FALSE, Err(""), NoPoint, 0)
             /\ ev' = Put(e, PassOn(r, i, lastCb'.ret))
             /\ UNCHANGED cb
        ELSE \E ax \in AxOutcomes, cls \in BOOLEAN, point \in Pointers,
                h \in ScreenHeights :
               LET res == get_focused_text_field_bounds(ax, cls, point, h)
                   focused == is_text_field_focused(ax)
               IN IF res.ok
                  THEN /\ cb' = [cb EXCEPT ![t] =
                             [pc |-> "lock", e |-> e, focused |-> focused,
                              res |-> res, point |-> point, height |-> h,
                              payload |-> NoBounds, emitOk |-> FALSE]]
                       /\ ev' = Put(e, [r EXCEPT !.status = "in_cb", !.pos = i - 1])
                       /\ UNCHANGED lastCb
                  ELSE /\ lastCb' = Passed(r, focused, res, NoPoint, 0)
                       /\ ev' = Put(e, PassOn(r, i, lastCb'.ret))
                       /\ UNCHANGED cb

\* The OS produces a key event and hands it to the newest enabled tap; with
\* no enabled tap it reaches the focused application.
KeyEvent ==
  /\ UNCHANGED <<injVars, detVars>>
  /\ MayBegin
  /\ \E k \in EventKinds :
       LET r == [etype |-> k.etype, keycode |-> k.keycode,
                 pos |-> Len(tapOrder), status |-> "queued",
                 afterStop |-> stopped, emits |-> 0]
           i == NextTap(Len(tapOrder))
       IN IF i = 0
          THEN /\ ev' = Append(ev, [r EXCEPT !.status = "app", !.pos = 0])
               /\ UNCHANGED <<cb, lastCb>>
          ELSE Enter(Len(ev) + 1, r, i)
  /\ UNCHANGED <<EVENT_TAP_REF, APP_HANDLE, tapLock, appLock, stop, nStart,
                 nStop, bg, enabled, tapOrder, startRet, lastStop, stopped>>

\* An event a tap passed on is handed to the next enabled tap.
CbEnter(e) ==
  /\ UNCHANGED <<injVars, detVars>>
  /\ ev[e].status = "queued"
  /\ NextTap(ev[e].pos) # 0
  /\ Enter(e, ev[e], NextTap(ev[e].pos))
  /\ UNCHANGED <<EVENT_TAP_REF, APP_HANDLE, tapLock, appLock, stop, nStart,
                 nStop, bg, enabled, tapOrder, startRet, lastStop, stopped>>

\* No enabled tap is left: the event reaches the focused application.
ReachApp(e) ==
  /\ UNCHANGED <<injVars, detVars>>
  /\ ev[e].status = "queued"
  /\ NextTap(ev[e].pos) = 0
  /\ ev' = [ev EXCEPT ![e].status = "app", ![e].pos = 0]
  /\ UNCHANGED <<EVENT_TAP_REF, APP_HANDLE, tapLock, appLock, stop, nStart,
                 nStop, bg, enabled, tapOrder, startRet, lastStop, cb, lastCb,
                 stopped>>

\* if let Ok(guard) = APP_HANDLE.lock() { if let Some(app) = guard.as_ref() {
\*   let _ = app.emit("trigger-detected", bounds);
\* With no app handle the guard is dropped and the event is returned.
CbEmit(t) ==
  /\ UNCHANGED <<injVars, detVars>>
  /\ cb[t].pc = "lock"
  /\ appLock = Free
  /\ LET e == cb[t].e
     IN IF APP_HANDLE = SomeApp
        THEN /\ \E ok \in BOOLEAN :
                  cb' = [cb EXCEPT ![t].pc = "overlay", ![t].emitOk = ok,
                                   ![t].payload = cb[t].res.val]
             /\ appLock' = Thread(t)
             /\ ev' = [ev EXCEPT ![e].emits = @ + 1]
             /\ UNCHANGED lastCb
        ELSE /\ lastCb' = Passed(ev[e], cb[t].focused, cb[t].res, cb[t].point,
                                 cb[t].height)
             /\ ev' = [ev EXCEPT ![e] = PassOn(ev[e], ev[e].pos + 1, lastCb'.ret)]
             /\ cb' = [cb EXCEPT ![t] = IdleCb]
             /\ UNCHANGED appLock
  /\ UNCHANGED <<EVENT_TAP_REF, APP_HANDLE, tapLock, stop, nStart, nStop, bg,
                 enabled, tapOrder, startRet, lastStop, stopped>>

\* A callback that shows the overlay before it emits.
OverlayTraceShowFirst(found) ==
  IF found
  THEN <<"get_window", "set_position", "show", "set_focus", "emit",
         "return_null">>
  ELSE <<"get_window", "emit", "return_null">>

\* The calls of a detection, in the order of the statements: emit, the window
\* lookup, then set_position, show and set_focus if the window exists, and
\* the return of the null pointer.
OverlayTrace(found) ==
  IF found
  THEN <<"emit", "get_window", "set_position", "show", "set_focus",
         "return_null">>
  ELSE <<"emit", "get_window", "return_null">>

\* A callback that suppresses the key only when the overlay was shown.
OverlayReturnIfShown(event, found, okp, oks, okf) ==
  CallbackReturn(event, found /\ okp /\ oks /\ okf)

\* What a detection returns: the results of set_position, show and set_focus
\* are dropped (let _ =), a missing window skips them.
OverlayReturn(event, found, okp, oks, okf) == CallbackReturn(event, TRUE)

\* if let Some(window) = app.get_webview_window("overlay") {
\*   let _ = window.set_position(..); let _ = window.show();
\*   let _ = window.set_focus(); }
\* return std::ptr::null_mut();   (the guard is dropped on return)
CbOverlay(t) ==
  /\ UNCHANGED <<injVars, detVars>>
  /\ cb[t].pc = "overlay"
  /\ LET e == cb[t].e
     IN /\ \E found, okp, oks, okf \in BOOLEAN :
             lastCb' =
               [etype |-> ev[e].etype, keycode |-> ev[e].keycode,
                focused |-> cb[t].focused, res |-> cb[t].res,
                point |-> cb[t].point, height |-> cb[t].height,
                app |-> APP_HANDLE, tapSet |-> EVENT_TAP_REF # NoTap,
                payload |-> cb[t].payload, emitOk |-> cb[t].emitOk,
                overlay |-> IF ~found THEN "no_window"
                            ELSE IF okp /\ oks /\ okf THEN "shown" ELSE "failed",
                ret |-> OverlayReturn(EventOf(ev[e]), found, okp, oks, okf),
                trace |-> OverlayTrace(found)]
        /\ ev' = [ev EXCEPT ![e].status = "dropped", ![e].pos = 0]
  /\ appLock' = Free
  /\ cb' = [cb EXCEPT ![t] = IdleCb]
  /\ UNCHANGED <<EVENT_TAP_REF, APP_HANDLE, tapLock, stop, nStart, nStop, bg,
                 enabled, tapOrder, startRet, lastStop, stopped>>

\* ============================================================ text_injector
\* Strings are sequences of characters; NUL is the character that ends a C
\* string.
NUL == 0
Chars == {NUL, 97}
MaxLen == 2
Strings == UNION {[1..n -> Chars] : n \in 0..MaxLen}

\* The texts the commands are called with: the empty string and another.
Texts == {<<>>, <<97>>}

\* Option<String>.
None == [some |-> FALSE, s |-> <<>>]
Some(s) == [some |-> TRUE, s |-> s]
Clipboards == {None} \cup {Some(s) : s \in Strings}

\* Budget on insert_text_via_paste calls plus insert_text calls.
MaxCalls == 2

\* CStr::from_ptr(c_str).to_string_lossy().into_owned(): the bytes before the
\* first NUL.
RECURSIVE CStrFromPtr(_)
CStrFromPtr(s) ==
  IF s = <<>> \/ Head(s) = NUL THEN <<>>
  ELSE <<Head(s)>> \o CStrFromPtr(Tail(s))

\* A get_clipboard_string that finds no string.
get_clipboard_string_none(pasteboard) == None

\* get_clipboard_string: None when the pasteboard has no string, else the
\* string as read through its UTF8String pointer.
get_clipboard_string(pasteboard) ==
  IF ~pasteboard.some THEN None ELSE Some(CStrFromPtr(pasteboard.s))

NoInsert == [n |-> 0, ax |-> "none", ret |-> "none",
             pending |-> FALSE]

\* The injector before any call, with the pasteboard empty.
InjIdle ==
  /\ clipboard = None
  /\ calls = <<>>
  /\ lastInsert = NoInsert

\* The injector before any call, whatever the pasteboard holds.
InjInit ==
  /\ clipboard \in Clipboards
  /\ calls = <<>>
  /\ lastInsert = NoInsert

MayCall == Len(calls) + lastInsert.n < MaxCalls

\* Commands are dispatched one at a time: no insert_text_via_paste call is
\* between its first statement and its return.
NoCallUnderWay == \A c \in DOMAIN calls : calls[c].pc = "returned"

\* A restore task has been spawned and has not finished.
RestorePending == \E c \in DOMAIN calls : calls[c].rest \in {"scheduled", "write"}

InsertOutcomes == {"no_system_wide", "no_focused_element", "rejected", "accepted"}

\* What insert_text returns for each outcome of the accessibility calls.
InsertResult(ax) ==
  CASE ax = "no_system_wide" -> "Failed to create system-wide AXUIElement"
    [] ax = "no_focused_element" -> "No focused element found"
    [] ax = "rejected" -> "Failed to insert text via Accessibility API"
    [] OTHER -> "Ok"

\* An insert_text that turns to the pasteboard when the element rejects the
\* write.
insert_text_paste_fallback(text, ax) ==
  /\ MayCall
  /\ NoCallUnderWay
  /\ lastInsert' = [n |-> lastInsert.n + 1, ax |-> ax,
                    ret |-> IF ax = "rejected" THEN "Ok" ELSE InsertResult(ax),
                    pending |-> RestorePending]
  /\ clipboard' = IF ax = "rejected" THEN Some(text) ELSE clipboard
  /\ UNCHANGED calls
  /\ UNCHANGED <<monVars, detVars>>

\* insert_text: AXUIElementCreateSystemWide, AXFocusedUIElement, then the
\* AXSelectedText write; no pasteboard call and no thread.
insert_text(text, ax) ==
  /\ MayCall
  /\ NoCallUnderWay
  /\ lastInsert' = [n |-> lastInsert.n + 1, ax |-> ax,
                    ret |-> InsertResult(ax), pending |-> RestorePending]
  /\ UNCHANGED <<clipboard, calls>>
  /\ UNCHANGED <<monVars, detVars>>

InsertText == \E text \in Texts, ax \in InsertOutcomes : insert_text(text, ax)

\* The call under way, if any: the latest one.
Cur == Len(calls)
AtPc(pc) == Cur >= 1 /\ calls[Cur].pc = pc
Return(call, ret, clip) ==
  [call EXCEPT !.pc = "returned", !.ret = ret, !.atReturn = clip]

\* insert_text_via_paste, steps 1 and 2: the general pasteboard, and
\* saved_contents = get_clipboard_string(pasteboard).
PasteSave ==
  /\ MayCall
  /\ NoCallUnderWay
  /\ \E text \in Texts :
       calls' = Append(calls,
                  [pc |-> "clear", text |-> text, pre |-> clipboard,
                   saved |-> get_clipboard_string(clipboard),
                   ret |-> "none", atReturn |-> None, posted |-> <<>>,
                   rest |-> "none", restWrote |-> FALSE, restOk |-> FALSE])
  /\ UNCHANGED <<clipboard, lastInsert>>
  /\ UNCHANGED <<monVars, detVars>>

\* msg_send![pasteboard, clearContents]
PasteClear ==
  /\ AtPc("clear")
  /\ clipboard' = None
  /\ calls' = [calls EXCEPT ![Cur].pc = "set"]
  /\ UNCHANGED lastInsert
  /\ UNCHANGED <<monVars, detVars>>

\* An insert_text_via_paste that spawns the restore thread also when the
\* pasteboard refuses the text.
PasteSetRestoresOnFailure ==
  /\ AtPc("set")
  /\ \E success \in BOOLEAN :
       IF success
       THEN /\ clipboard' = Some(calls[Cur].text)
            /\ calls' = [calls EXCEPT ![Cur].pc = "source"]
       ELSE /\ clipboard' = None
            /\ calls' = [calls EXCEPT ![Cur] =
                           Return([@ EXCEPT !.rest = "scheduled"],
                                  "Failed to set clipboard content", None)]
  /\ UNCHANGED lastInsert
  /\ UNCHANGED <<monVars, detVars>>

\* declareTypes, then setString:forType:, which the pasteboard may refuse:
\* if !success { return Err("Failed to set clipboard content") }
PasteSet ==
  /\ AtPc("set")
  /\ \E success \in BOOLEAN :
       IF success
       THEN /\ clipboard' = Some(calls[Cur].text)
            /\ calls' = [calls EXCEPT ![Cur].pc = "source"]
       ELSE /\ clipboard' = None
            /\ calls' = [calls EXCEPT ![Cur] =
                           Return(@, "Failed to set clipboard content", None)]
  /\ UNCHANGED lastInsert
  /\ UNCHANGED <<monVars, detVars>>

SynthOutcomes == {"ok", "no_source", "no_key_down", "no_key_up"}

\* CGEventSource::new and the two CGEvent::new_keyboard_event calls, each of
\* which returns early with its own error.
PasteSynth ==
  /\ AtPc("source")
  /\ \E out \in SynthOutcomes :
       calls' = [calls EXCEPT ![Cur] =
                   CASE out = "no_source" ->
                          Return(@, "Failed to create event source", clipboard)
                     [] out = "no_key_down" ->
                          Return(@, "Failed to create key down event", clipboard)
                     [] out = "no_key_up" ->
                          Return(@, "Failed to create key up event", clipboard)
                     [] OTHER -> [@ EXCEPT !.pc = "post_down"]]
  /\ UNCHANGED <<clipboard, lastInsert>>
  /\ UNCHANGED <<monVars, detVars>>

\* key_down.post(CGEventTapLocation::HID)
PastePostDown ==
  /\ AtPc("post_down")
  /\ calls' = [calls EXCEPT ![Cur].pc = "post_up",
                            ![Cur].posted = Append(@, "key_down")]
  /\ UNCHANGED <<clipboard, lastInsert>>
  /\ UNCHANGED <<monVars, detVars>>

\* key_up.post(CGEventTapLocation::HID)
PastePostUp ==
  /\ AtPc("post_up")
  /\ calls' = [calls EXCEPT ![Cur].pc = "spawn",
                            ![Cur].posted = Append(@, "key_up")]
  /\ UNCHANGED <<clipboard, lastInsert>>
  /\ UNCHANGED <<monVars, detVars>>

\* thread::spawn(move || { .. }); Ok(())
PasteSpawn ==
  /\ AtPc("spawn")
  /\ calls' = [calls EXCEPT ![Cur] =
                 Return([@ EXCEPT !.rest = "scheduled"], "Ok", clipboard)]
  /\ UNCHANGED <<clipboard, lastInsert>>
  /\ UNCHANGED <<monVars, detVars>>

\* The restore thread of call c after its sleep: clearContents.
RestoreClear(c) ==
  /\ calls[c].rest = "scheduled"
  /\ clipboard' = None
  /\ calls' = [calls EXCEPT ![c].rest =
                 IF calls[c].saved.some THEN "write" ELSE "done"]
  /\ UNCHANGED lastInsert
  /\ UNCHANGED <<monVars, detVars>>

\* if let Some(original_content) = saved_contents { declareTypes; setString },
\* the result of setString being dropped.
RestoreWrite(c) ==
  /\ calls[c].rest = "write"
  /\ \E ok \in BOOLEAN :
       /\ clipboard' = IF ok THEN Some(calls[c].saved.s) ELSE None
       /\ calls' = [calls EXCEPT ![c].rest = "done", ![c].restWrote = TRUE,
                                 ![c].restOk = ok]
  /\ UNCHANGED lastInsert
  /\ UNCHANGED <<monVars, detVars>>

\* ------------------------------------------------------------ specifications
\* The keystroke monitor, the injector at rest.
Init == MonInit /\ InjIdle /\ DetIdle

Next ==
  \/ StartMonitoring
  \/ \E t \in TapIds : BgCreate(t)
  \/ \E t \in TapIds : BgStore(t)
  \/ \E t \in TapIds : BgEnable(t)
  \/ StopTake
  \/ StopDisable
  \/ StopClear
  \/ KeyEvent
  \/ \E e \in DOMAIN ev : ReachApp(e)
  \/ \E e \in DOMAIN ev : CbEnter(e)
  \/ \E t \in TapIds : CbEmit(t)
  \/ \E t \in TapIds : CbOverlay(t)

Spec == Init /\ [][Next]_vars

\* The text injector, the monitor at rest.
InjectInit == MonInit /\ InjInit /\ DetIdle

InjectNext ==
  \/ InsertText
  \/ PasteSave
  \/ PasteClear
  \/ PasteSet
  \/ PasteSynth
  \/ PastePostDown
  \/ PastePostUp
  \/ PasteSpawn
  \/ \E c \in DOMAIN calls : RestoreClear(c)
  \/ \E c \in DOMAIN calls : RestoreWrite(c)

InjectSpec == InjectInit /\ [][InjectNext]_vars

\* The detector's commands, the monitor and the injector at rest.
DetectInit == MonInit /\ InjIdle /\ DetInit

DetectNext ==
  \/ EnvChange
  \/ GetCursorPosition
  \/ GetFocusedTextFieldBounds

DetectSpec == DetectInit /\ [][DetectNext]_vars

\* ================================================================ claims
\* The callback invocation that returned last was for the trigger key-down.
LastWasTrigger ==
  lastCb.etype = K_CG_EVENT_KEY_DOWN /\ lastCb.keycode = VK_SLASH
LastEvent == [etype |-> lastCb.etype, keycode |-> lastCb.keycode]
IsTriggerEvent(r) == r.etype = K_CG_EVENT_KEY_DOWN /\ r.keycode = VK_SLASH

\* C1: a callback invocation for an event that is not a key-down of the
\* trigger key returns that very event and makes no notification and no
\* overlay call; such an event is never inside the detection path, never
\* notified and never suppressed, whatever the two slots hold.
C1_NonTriggerPassesThrough ==
  /\ (lastCb # NoCb /\ ~LastWasTrigger) =>
        /\ lastCb.ret = LastEvent
        /\ lastCb.trace = <<"return_event">>
  /\ \A e \in DOMAIN ev :
        ~IsTriggerEvent(ev[e]) =>
           /\ ev[e].emits = 0
           /\ ev[e].status \in {"queued", "app"}
  /\ \A t \in TapIds : cb[t].pc # "idle" => IsTriggerEvent(ev[cb[t].e])

\* A key-down of another key has been through the callback while both slots
\* were set.
C1_Witness ==
  /\ lastCb # NoCb
  /\ lastCb.etype = K_CG_EVENT_KEY_DOWN
  /\ lastCb.keycode # VK_SLASH
  /\ lastCb.app = SomeApp
  /\ lastCb.tapSet

\* C2: a callback invocation for the trigger key-down during which
\* is_text_field_focused answered false returns the event itself, emits no
\* notification and makes no overlay call.
C2_TriggerWithoutFocusPassesThrough ==
  /\ (lastCb # NoCb /\ LastWasTrigger /\ ~lastCb.focused) =>
        /\ lastCb.ret = LastEvent
        /\ lastCb.trace = <<"return_event">>
        /\ lastCb.overlay = "none"
  /\ \A t \in TapIds : cb[t].pc # "idle" => cb[t].focused

C2_Witness ==
  /\ lastCb # NoCb
  /\ LastWasTrigger
  /\ ~lastCb.focused
  /\ lastCb.app = SomeApp
  /\ lastCb.tapSet

\* How often op occurs in a callback trace.
Count(trace, op) == Cardinality({i \in DOMAIN trace : trace[i] = op})

\* C3: a callback invocation for the trigger key-down with a text field
\* focused, the cursor query answered and the app handle registered when the
\* callback reads it returns the null pointer and emits exactly once, the
\* payload being {x: pointer x, y: screen height - pointer y, 0, 0}; no key
\* event is ever notified twice, and a suppressed one was notified once.
C3_DetectionSuppressesAndNotifiesOnce ==
  /\ (lastCb # NoCb /\ LastWasTrigger /\ lastCb.focused /\ lastCb.res.ok
        /\ lastCb.app = SomeApp) =>
        /\ lastCb.ret = NullEvent
        /\ Count(lastCb.trace, "emit") = 1
        /\ lastCb.payload = [x |-> lastCb.point.x,
                             y |-> lastCb.height - lastCb.point.y,
                             width |-> 0, height |-> 0]
  /\ \A e \in DOMAIN ev :
        /\ ev[e].emits <= 1
        /\ ev[e].status = "dropped" => ev[e].emits = 1

C3_Witness ==
  /\ lastCb # NoCb
  /\ LastWasTrigger
  /\ lastCb.focused
  /\ lastCb.res.ok
  /\ lastCb.app = SomeApp
  /\ lastCb.tapSet
  /\ lastCb.ret = NullEvent
  /\ lastCb.payload.y = 600

\* C4: a key event produced after stop_monitoring returned, with no
\* start_monitoring call since, is never notified and never suppressed,
\* whatever its kind, its keycode and the focus.
C4_NoDetectionAfterStop ==
  \A e \in DOMAIN ev :
     ev[e].afterStop =>
        /\ ev[e].emits = 0
        /\ ev[e].status # "dropped"
        /\ \A t \in TapIds : cb[t].e = e => cb[t].pc # "overlay"

\* A trigger key-down after the stop, with a text field focused, went through
\* the callback of a tap that is still enabled and reached the application.
C4_Witness ==
  /\ Len(ev) = 1
  /\ ev[1].afterStop
  /\ ev[1].status = "app"
  /\ lastCb # NoCb
  /\ LastWasTrigger
  /\ lastCb.focused
  /\ lastCb.res.ok

\* C5: a stop_monitoring call made while both slots are empty and no start is
\* under way (the Idle state, as directly after an earlier stop_monitoring)
\* disables no tap, returns Ok and leaves both slots empty.
C5_StopIdempotentWhenIdle ==
  lastStop.idle =>
     /\ lastStop.disables = 0
     /\ lastStop.ret \in {"none", "Ok"}
     /\ EVENT_TAP_REF = NoTap
     /\ APP_HANDLE = NoApp

\* The second of two stop_monitoring calls has returned; the first one had
\* disabled a tap.
C5_Witness ==
  /\ nStop = 2
  /\ lastStop.idle
  /\ lastStop.ret = "Ok"
  /\ \E t \in TapIds : bg[t] = "runloop" /\ ~enabled[t]

\* C6 (as claimed): at most one tap is created and enabled at any time.
C6_AtMostOneEnabledTap ==
  Cardinality({t \in TapIds : enabled[t]}) <= 1

\* C7 (as claimed): a start_monitoring call whose tap the OS refused to create
\* returned Err.
C7_RefusedStartReturnsErr ==
  \A t \in TapIds : bg[t] = "exited" => startRet[t] = "Err"

\* C8 (as claimed): once every start_monitoring call made so far has run to
\* completion with its tap refused, no tap is stored and no app handle is
\* registered.
C8_RefusedStartLeavesIdle ==
  (nStart >= 1 /\ \A t \in 1..nStart : bg[t] = "exited") =>
     /\ EVENT_TAP_REF = NoTap
     /\ APP_HANDLE = NoApp

\* C9 (as claimed): when a single insert_text_via_paste call has been made and
\* it returned Ok, the clipboard held the injected text when it returned and,
\* once its restore task has run with the pasteboard accepting its write, the
\* clipboard equals what it held before the call.
C9_PasteRestoresClipboard ==
  \A c \in DOMAIN calls :
     (Len(calls) = 1 /\ calls[c].ret = "Ok") =>
        /\ calls[c].atReturn = Some(calls[c].text)
        /\ (calls[c].rest = "done" /\ (calls[c].restWrote => calls[c].restOk))
              => clipboard = calls[c].pre

\* C10: a step that is an insert_text call leaves the clipboard, the paste
\* calls and their restore tasks as they were, whatever its outcome, and
\* returns the accessibility-write error when the focused element rejected
\* the write.
C10_InsertTextLeavesClipboard ==
  [][lastInsert'.n # lastInsert.n =>
       /\ clipboard' = clipboard
       /\ calls' = calls
       /\ lastInsert'.ax = "rejected" =>
            lastInsert'.ret = "Failed to insert text via Accessibility API"]_vars

\* An insert_text call was rejected by the focused element while the
\* clipboard held injected text and a restore task was pending.
C10_Witness ==
  /\ lastInsert.n = 1
  /\ lastInsert.ax = "rejected"
  /\ lastInsert.ret = "Failed to insert text via Accessibility API"
  /\ lastInsert.pending
  /\ clipboard.some
  /\ Len(clipboard.s) > 0

\* C11: get_focused_text_field_bounds calls is_text_field_focused first; when
\* that is false it makes no cursor query and returns the no-focus error;
\* when it is true it returns what get_cursor_position returns, value or
\* error; so the no-focus error is returned exactly when the focus check is
\* false.
C11_BoundsChecksFocusFirst ==
  query.op = "get_focused_text_field_bounds" =>
     LET at == query.at
         focused == is_text_field_focused(at.ax)
     IN /\ Head(query.calls) = "is_text_field_focused"
        /\ ~focused =>
             /\ query.res = Err("No focused text field")
             /\ \A i \in DOMAIN query.calls :
                   query.calls[i] # "get_cursor_position"
        /\ focused =>
             /\ query.calls = <<"is_text_field_focused", "get_cursor_position">>
             /\ query.res = get_cursor_position(at.cls, at.point, at.height)
        /\ (~query.res.ok /\ query.res.err = "No focused text field")
              <=> ~focused

\* A text field was focused and the class lookup failed: the error returned
\* is the lookup's.
C11_Witness ==
  /\ query.op = "get_focused_text_field_bounds"
  /\ is_text_field_focused(query.at.ax)
  /\ ~query.at.cls
  /\ ~query.res.ok
  /\ query.res.err = "Failed to get NSEvent class"

\* C12: when its lookups succeed, get_cursor_position returns
\* {x: px, y: H - py, width: 0, height: 0} for the pointer (px, py) and the
\* main screen's height H.
C12_CursorPositionTopLeft ==
  (query.op = "get_cursor_position" /\ query.at.cls) =>
     /\ query.res.ok
     /\ query.res.val = [x |-> query.at.point.x,
                         y |-> query.at.height - query.at.point.y,
                         width |-> 0, height |-> 0]

\* The pointer at (100, 200) on the 800-tall screen gave {100, 600, 0, 0}.
C12_Witness ==
  /\ query.op = "get_cursor_position"
  /\ query.at.point = [x |-> 100, y |-> 200]
  /\ query.at.height = 800
  /\ query.res = Ok([x |-> 100, y |-> 600, width |-> 0, height |-> 0])

\* C13 (as claimed, for the states at rest): when no start_monitoring thread
\* is between its spawn and its run loop, no tap was refused and no
\* stop_monitoring call is under way, the app handle is registered if and
\* only if a tap is stored.
C13_SinkIffTap ==
  (/\ NoStartUnderWay
   /\ \A t \in TapIds : bg[t] # "exited"
   /\ stop.pc = "idle") =>
     (APP_HANDLE = SomeApp <=> EVENT_TAP_REF # NoTap)

\* C14: a callback invocation for the trigger key-down in which the focus
\* check was false, the cursor query failed or the app handle was not
\* registered returns the event itself, emits nothing and makes no overlay
\* call.
C14_FailurePassesThrough ==
  (/\ lastCb # NoCb
   /\ LastWasTrigger
   /\ (~lastCb.focused \/ ~lastCb.res.ok \/ lastCb.app = NoApp)) =>
     /\ lastCb.ret = LastEvent
     /\ lastCb.trace = <<"return_event">>
     /\ lastCb.overlay = "none"
     /\ lastCb.payload = NoBounds

\* A text field was focused, the cursor query failed on the class lookup and
\* the app handle was registered: the event was passed through.
C14_Witness ==
  /\ lastCb # NoCb
  /\ LastWasTrigger
  /\ lastCb.focused
  /\ ~lastCb.res.ok
  /\ lastCb.res.err = "Failed to get NSEvent class"
  /\ lastCb.app = SomeApp
  /\ lastCb.tapSet
  /\ lastCb.ret = LastEvent

\* C15 (as claimed): a callback invocation whose emit failed returns the
\* event itself.
C15_SuppressedOnlyIfDelivered ==
  (/\ lastCb # NoCb
   /\ Count(lastCb.trace, "emit") = 1
   /\ ~lastCb.emitOk) =>
     lastCb.ret = LastEvent

\* The place of the first op in a trace (0: not in it).
IndexOf(trace, op) ==
  IF \E i \in DOMAIN trace : trace[i] = op
  THEN CHOOSE i \in DOMAIN trace :
         trace[i] = op /\ \A j \in DOMAIN trace : trace[j] = op => i <= j
  ELSE 0

\* C16: in a callback invocation that made an overlay call or returned the
\* null pointer, the emit comes first, set_position, show and set_focus
\* follow in that order and the return of the null pointer is last; a
\* callback that is at its overlay part has emitted for its event, and a
\* suppressed event was notified.
C16_EmitThenOverlayThenSuppress ==
  /\ (lastCb # NoCb /\ (lastCb.overlay # "none" \/ lastCb.ret = NullEvent)) =>
        LET tr == lastCb.trace
        IN /\ Head(tr) = "emit"
           /\ tr[Len(tr)] = "return_null"
           /\ Count(tr, "emit") = 1
           /\ IndexOf(tr, "set_position") # 0 =>
                /\ IndexOf(tr, "emit") < IndexOf(tr, "set_position")
                /\ IndexOf(tr, "set_position") < IndexOf(tr, "show")
                /\ IndexOf(tr, "show") < IndexOf(tr, "set_focus")
                /\ IndexOf(tr, "set_focus") < IndexOf(tr, "return_null")
  /\ \A t \in TapIds : cb[t].pc = "overlay" => ev[cb[t].e].emits = 1
  /\ \A e \in DOMAIN ev : ev[e].status = "dropped" => ev[e].emits = 1

\* A detection that found the overlay window has returned.
C16_Witness ==
  /\ lastCb # NoCb
  /\ lastCb.overlay = "shown"
  /\ lastCb.ret = NullEvent
  /\ Len(lastCb.trace) = 6

\* C17: a callback invocation that emitted returns the null pointer whether
\* the overlay window was missing, shown, or its set_position, show or
\* set_focus failed.
C17_OverlayIsBestEffort ==
  (lastCb # NoCb /\ Count(lastCb.trace, "emit") = 1) =>
     /\ lastCb.overlay \in {"no_window", "shown", "failed"}
     /\ lastCb.ret = NullEvent

\* A detection whose overlay calls failed has suppressed the key.
C17_Witness ==
  /\ lastCb # NoCb
  /\ LastWasTrigger
  /\ lastCb.overlay = "failed"
  /\ lastCb.ret = NullEvent
  /\ Count(lastCb.trace, "emit") = 1

\* C18: no context owns both locks; the EVENT_TAP_REF lock is owned only by
\* a stop_monitoring call that is disabling the tap, the APP_HANDLE lock only
\* by a callback in its emit-and-overlay part, and neither asks for another
\* lock there, so each owner can go on and release.
C18_NeverBothLocks ==
  /\ ~(tapLock # Free /\ tapLock = appLock)
  /\ tapLock # Free => (tapLock = Stopper /\ stop.pc = "t_disable")
  /\ appLock # Free =>
        \E t \in TapIds : appLock = Thread(t) /\ cb[t].pc = "overlay"

\* Both locks are owned at once, by a stop_monitoring call and by a callback.
C18_Witness ==
  /\ tapLock = Stopper
  /\ \E t \in TapIds : appLock = Thread(t)

\* C19 (as claimed): no lock is owned during an external call: not the
\* APP_HANDLE lock by a callback that emits or drives the overlay, not the
\* EVENT_TAP_REF lock by a stop_monitoring call that disables the tap.
C19_NoLockAcrossExternalCall ==
  /\ \A t \in TapIds : cb[t].pc = "overlay" => appLock # Thread(t)
  /\ stop.pc = "t_disable" => tapLock # Stopper

\* C20: while the restore task of a first insert_text_via_paste call that
\* returned Ok has not fired, a second call has taken the first call's
\* injected text as its snapshot.
C20_SecondSnapshotIsFirstText ==
  (/\ Len(calls) = 2
   /\ calls[1].ret = "Ok"
   /\ calls[1].rest = "scheduled") =>
     /\ calls[2].pre = Some(calls[1].text)
     /\ calls[2].saved = Some(calls[1].text)

\* Two calls returned Ok, the second begun before the first one's restore
\* fired; both restore tasks have run and the clipboard holds the first
\* call's text, not what it held before the first call.
C20_Witness ==
  /\ Len(calls) = 2
  /\ calls[1].ret = "Ok" /\ calls[2].ret = "Ok"
  /\ calls[1].rest = "done" /\ calls[2].rest = "done"
  /\ calls[2].pre = Some(calls[1].text)
  /\ calls[1].saved # Some(calls[1].text)
  /\ clipboard = Some(calls[1].text)
  /\ clipboard # calls[1].pre

\* C21 (as claimed): a restore task that has run wrote nothing when the
\* clipboard held no text before the call, and wrote exactly the text the
\* clipboard held before the call, the empty string included, when it held
\* one.
C21_RestoreWritesSnapshotOrNothing ==
  \A c \in DOMAIN calls :
     calls[c].rest = "done" =>
        /\ ~calls[c].pre.some => ~calls[c].restWrote
        /\ calls[c].pre.some =>
             /\ calls[c].restWrote
             /\ calls[c].saved = calls[c].pre

ErrorReturns == {"Failed to set clipboard content",
                 "Failed to create event source",
                 "Failed to create key down event",
                 "Failed to create key up event"}

\* C22: a restore task exists exactly for the calls that returned Ok; a call
\* that returned an error posted no key event and, when it is the only call,
\* the clipboard stays as it left it, cleared or holding the injected text; a
\* call posts key_down before key_up and both before it spawns the restore
\* thread and returns Ok.
C22_RestoreScheduledIffOk ==
  \A c \in DOMAIN calls :
     /\ calls[c].rest # "none" <=> calls[c].ret = "Ok"
     /\ calls[c].pc = "returned" <=> calls[c].ret \in ErrorReturns \cup {"Ok"}
     /\ calls[c].ret \in ErrorReturns =>
          /\ calls[c].posted = <<>>
          /\ Len(calls) = 1 =>
               /\ clipboard = calls[c].atReturn
               /\ clipboard \in {None, Some(calls[c].text)}
     /\ calls[c].posted \in {<<>>, <<"key_down">>, <<"key_down", "key_up">>}
     /\ calls[c].ret = "Ok" => calls[c].posted = <<"key_down", "key_up">>

\* The only call returned the key-up error: nothing was posted, no restore
\* task exists and the clipboard holds the injected text, not what it held
\* before the call.
C22_Witness ==
  /\ Len(calls) = 1
  /\ calls[1].pc = "returned"
  /\ calls[1].ret = "Failed to create key up event"
  /\ calls[1].posted = <<>>
  /\ calls[1].rest = "none"
  /\ calls[1].pre.some
  /\ calls[1].pre # Some(calls[1].text)
  /\ clipboard = Some(calls[1].text)
====
